---- MODULE Spec2Model ----
(***************************************************************************)
(* Kobo dashboard renderer (kobo-ha).                                      *)
(*                                                                         *)
(* Two programs live in the repository: src/app.py (weather + transmission *)
(* layout, called "v1" here) and src/python/app.py (the same plus inside   *)
(* sensors, wind chill and a remote weather icon, called "v2").  Both are  *)
(* modelled; the variable `variant` says which one is running.            *)
(*                                                                         *)
(* Python strings that the code inspects character by character are        *)
(* sequences of one-character strings; strings that are only passed on are *)
(* TLA+ strings.                                                           *)
(***************************************************************************)
EXTENDS Integers, Sequences, FiniteSets, TLC

VARIABLES
    fitIn,      \* arguments of one call of fit_text_in_box
    fitOut,     \* its return value, NoResult before the call
    condIn,     \* argument of one call of icon_for_condition
    glyphOut,   \* its return value, NoResult before the call
    variant,    \* "v1" is src/app.py, "v2" is src/python/app.py
    metric,     \* what the text measurer answers in this process
    cfg,        \* INSIDE_TEMP_ENTITY, INSIDE_HUMIDITY_ENTITY, HOTTUB_TEMP_ENTITY
    path,       \* self.path of a request accepted and not yet dispatched
    pc,         \* where do_GET stands: "idle", the pending request, or "done"
    weather,    \* reply of ha_state(WEATHER_ENTITY)
    dl,         \* reply of ha_state(DL_ENTITY)
    ul,         \* reply of ha_state(UL_ENTITY)
    aux,        \* replies of the three numeric_state calls
    icon,       \* reply of the remote icon fetch
    requests,   \* the network requests issued so far, in order
    canvas,     \* the drawing operations applied to img so far, in order
    img,        \* dimensions of the image and how often it was rotated
    result,     \* what build_image_bytes returned or raised
    response    \* what do_GET sent

pureVars == <<fitIn, fitOut, condIn, glyphOut>>
renderVars == <<variant, metric, cfg, path, pc, weather, dl, ul, aux, icon,
                requests, canvas, img, result, response>>

NoResult == [t |-> "none"]

Max(a, b) == IF a >= b THEN a ELSE b

(***************************************************************************)
(* Text fitter                                                             *)
(***************************************************************************)

\* A measurement table stands for get_font + text_size applied to one text:
\* meas[size] is the (w, h) that text_size returns for the font of that size.
\* The table is arbitrary: the scalable font need not be monotonic and the
\* bitmap fallback of get_font ignores the size altogether.

fit_text_in_box_last_scanned(meas, box, max_size, min_size) ==
    LET box_w == Max(1, box[3] - box[1])
        box_h == Max(1, box[4] - box[2])
        fits(size) == meas[size].w <= box_w /\ meas[size].h <= box_h
        cands == {s \in min_size..max_size : (max_size - s) % 2 = 0}
        good == {s \in cands : fits(s)}
        pick == IF good # {}
                THEN CHOOSE s \in good : \A u \in good : u <= s
                ELSE CHOOSE s \in cands : \A u \in cands : s <= u
    IN  [size |-> pick, w |-> meas[pick].w, h |-> meas[pick].h]

fit_text_in_box_ascending(meas, box, max_size, min_size) ==
    LET box_w == Max(1, box[3] - box[1])
        box_h == Max(1, box[4] - box[2])
        fits(size) == meas[size].w <= box_w /\ meas[size].h <= box_h
        cands == {s \in min_size..max_size : (max_size - s) % 2 = 0}
        good == {s \in cands : fits(s)}
        pick == IF good # {}
                THEN CHOOSE s \in good : \A u \in good : s <= u
                ELSE min_size
    IN  [size |-> pick, w |-> meas[pick].w, h |-> meas[pick].h]

RECURSIVE fit_scan(_, _, _, _, _)
fit_scan(meas, box_w, box_h, size, min_size) ==
    IF size < min_size
    THEN \* range exhausted: fall back to min_size
         [size |-> min_size, w |-> meas[min_size].w, h |-> meas[min_size].h]
    ELSE IF meas[size].w <= box_w /\ meas[size].h <= box_h
         THEN [size |-> size, w |-> meas[size].w, h |-> meas[size].h]
         ELSE fit_scan(meas, box_w, box_h, size - 2, min_size)

fit_text_in_box(meas, box, max_size, min_size) ==
    LET box_w == Max(1, box[3] - box[1])
        box_h == Max(1, box[4] - box[2])
    IN  fit_scan(meas, box_w, box_h, max_size, min_size)

(***************************************************************************)
(* Condition -> glyph table                                                *)
(***************************************************************************)

UpperCase == <<"A","B","C","D","E","F","G","H","I","J","K","L","M",
               "N","O","P","Q","R","S","T","U","V","W","X","Y","Z">>
LowerCase == <<"a","b","c","d","e","f","g","h","i","j","k","l","m",
               "n","o","p","q","r","s","t","u","v","w","x","y","z">>

\* str.lower() on one character
lower_char(c) ==
    IF \E i \in 1..26 : UpperCase[i] = c
    THEN LowerCase[CHOOSE i \in 1..26 : UpperCase[i] = c]
    ELSE c

\* str.upper() on one character
upper_char(c) ==
    IF \E i \in 1..26 : LowerCase[i] = c
    THEN UpperCase[CHOOSE i \in 1..26 : LowerCase[i] = c]
    ELSE c

lower(s) == [i \in 1..Len(s) |-> lower_char(s[i])]

\* str.capitalize(): first character upper-cased, the rest lower-cased
capitalize(s) ==
    [i \in 1..Len(s) |-> IF i = 1 THEN upper_char(s[i]) ELSE lower_char(s[i])]

startswith(s, prefix) ==
    /\ Len(prefix) <= Len(s)
    /\ \A i \in 1..Len(prefix) : s[i] = prefix[i]

\* The dict literal of icon_for_condition, in insertion order.
mapping == <<
    [key |-> <<"s","u","n","n","y">>,                          icon |-> "SUN"],
    [key |-> <<"c","l","e","a","r">>,                          icon |-> "SUN"],
    [key |-> <<"c","l","e","a","r","-","n","i","g","h","t">>,  icon |-> "MOON"],
    [key |-> <<"c","l","o","u","d","y">>,                      icon |-> "CLOUD"],
    [key |-> <<"p","a","r","t","l","y","c","l","o","u","d","y">>,     icon |-> "SUN_CLOUD"],
    [key |-> <<"p","a","r","t","l","y"," ","c","l","o","u","d","y">>, icon |-> "SUN_CLOUD"],
    [key |-> <<"r","a","i","n","y">>,                          icon |-> "UMBRELLA"],
    [key |-> <<"p","o","u","r","i","n","g">>,                  icon |-> "UMBRELLA_RAIN"],
    [key |-> <<"s","n","o","w","y">>,                          icon |-> "SNOWFLAKE"],
    [key |-> <<"s","n","o","w","y","-","r","a","i","n","y">>,  icon |-> "SNOWFLAKE_UMBRELLA"],
    [key |-> <<"h","a","i","l">>,                              icon |-> "COMET"],
    [key |-> <<"l","i","g","h","t","n","i","n","g">>,          icon |-> "BOLT"],
    [key |-> <<"l","i","g","h","t","n","i","n","g","-","r","a","i","n","y">>, icon |-> "THUNDERSTORM"],
    [key |-> <<"w","i","n","d","y">>,                          icon |-> "CYCLONE"],
    [key |-> <<"f","o","g">>,                                  icon |-> "WAVY_DASH"],
    [key |-> <<"w","i","n","d","y","-","v","a","r","i","a","n","t">>, icon |-> "CYCLONE_CLOUD"],
    [key |-> <<"e","x","c","e","p","t","i","o","n","a","l">>,  icon |-> "BANG"] >>

FALLBACK_DOT == "DOT"

RECURSIVE icon_scan(_, _)
icon_scan(condition, i) ==
    IF i > Len(mapping) THEN FALLBACK_DOT
    ELSE IF startswith(condition, mapping[i].key) THEN mapping[i].icon
         ELSE icon_scan(condition, i + 1)

\* `condition or ""` maps None to the empty string, which is <<>> here.
icon_for_condition(condition) == icon_scan(lower(condition), 1)

(***************************************************************************)
(* Python values that arrive in JSON, and the conversions applied to them  *)
(***************************************************************************)

\* Floats are kept in tenths: PyFloat(214) is 21.4.  Strings are character
\* sequences.  Absent is a key missing from a dict, PyNone a JSON null.
PyNone == [t |-> "none"]
Absent == [t |-> "absent"]
PyInt(n) == [t |-> "int", n |-> n]
PyFloat(k) == [t |-> "float", tenths |-> k]
PyStr(chars) == [t |-> "str", chars |-> chars]

\* One character stands for each non-ASCII character of the source.
EM_DASH == "~"
DEGREE == "^"

\* dict.get(key) and dict.get(key, default) on a looked-up entry
get(entry) == IF entry = Absent THEN PyNone ELSE entry
get_default(entry, default) == IF entry = Absent THEN default ELSE entry

\* Python truthiness, as used by `or` and `if x`
truthy(v) ==
    CASE v.t = "none"  -> FALSE
      [] v.t = "int"   -> v.n # 0
      [] v.t = "float" -> v.tenths # 0
      [] v.t = "str"   -> v.chars # <<>>

py_or(a, b) == IF truthy(a) THEN a ELSE b

RECURSIVE Join(_)
Join(chars) == IF chars = <<>> THEN "" ELSE Head(chars) \o Join(Tail(chars))

\* f"{v:.1f}" of a float held in tenths
fmt1(k) ==
    LET a == IF k < 0 THEN -k ELSE k
    IN  (IF k < 0 THEN "-" ELSE "") \o ToString(a \div 10) \o "." \o ToString(a % 10)

\* f"{v:.0f}" of a float held in tenths: round half to even, sign kept
fmt0(k) ==
    LET a == IF k < 0 THEN -k ELSE k
        q == a \div 10
        r == a % 10
        n == IF r < 5 THEN q
             ELSE IF r > 5 THEN q + 1
             ELSE IF q % 2 = 0 THEN q ELSE q + 1
    IN  (IF k < 0 THEN "-" ELSE "") \o ToString(n)

\* str(v), as produced by an f-string field without a format
str(v) ==
    CASE v.t = "none"  -> "None"
      [] v.t = "int"   -> ToString(v.n)
      [] v.t = "float" -> fmt1(v.tenths)
      [] v.t = "str"   -> Join(v.chars)

Digits == <<"0","1","2","3","4","5","6","7","8","9">>
is_digit(c) == \E i \in 1..10 : Digits[i] = c
digit_val(c) == (CHOOSE i \in 1..10 : Digits[i] = c) - 1

RECURSIVE digits_val(_, _)
digits_val(chars, acc) ==
    IF chars = <<>> THEN acc
    ELSE digits_val(Tail(chars), acc * 10 + digit_val(Head(chars)))

ParseError == [ok |-> FALSE, tenths |-> 0]

\* float("...") for decimal literals with at most one fractional digit:
\* optional sign, digits, optional "." and digits.  Anything else raises
\* ValueError, which is ParseError here.
parse_float(chars) ==
    LET neg  == chars # <<>> /\ Head(chars) = "-"
        body == IF chars # <<>> /\ Head(chars) \in {"-", "+"} THEN Tail(chars) ELSE chars
        dots == {i \in 1..Len(body) : body[i] = "."}
        dot  == IF dots = {} THEN Len(body) + 1 ELSE CHOOSE i \in dots : TRUE
        ip   == SubSeq(body, 1, dot - 1)
        fp   == SubSeq(body, dot + 1, Len(body))
        wellformed ==
            /\ Cardinality(dots) <= 1
            /\ Len(ip) + Len(fp) > 0
            /\ Len(fp) <= 1
            /\ \A i \in 1..Len(ip) : is_digit(ip[i])
            /\ \A i \in 1..Len(fp) : is_digit(fp[i])
        mag == digits_val(ip, 0) * 10 + digits_val(fp, 0)
    IN  IF wellformed
        THEN [ok |-> TRUE, tenths |-> IF neg THEN -mag ELSE mag]
        ELSE ParseError

\* float(v): numbers convert, strings are parsed, None raises TypeError
float(v) ==
    CASE v.t = "none"  -> ParseError
      [] v.t = "int"   -> [ok |-> TRUE, tenths |-> v.n * 10]
      [] v.t = "float" -> [ok |-> TRUE, tenths |-> v.tenths]
      [] v.t = "str"   -> parse_float(v.chars)

UNKNOWN == <<"u","n","k","n","o","w","n">>
UNAVAILABLE == <<"u","n","a","v","a","i","l","a","b","l","e">>

\* `state in ("unknown", "unavailable", None)`
is_no_data(v) ==
    \/ v.t = "none"
    \/ v.t = "str" /\ v.chars \in {UNKNOWN, UNAVAILABLE}

\* f"{a} {b}".strip() for parts without outer whitespace
strip_join(a, b) ==
    IF b = "" THEN a ELSE IF a = "" THEN b ELSE a \o " " \o b

format_speed(state, attrs) ==
    IF is_no_data(state) THEN "-"
    ELSE LET unit  == str(get_default(attrs.unit_of_measurement, PyStr(<<>>)))
             value == float(state)
         IN  IF value.ok THEN strip_join(fmt1(value.tenths), unit)
             ELSE strip_join(str(state), unit)

(***************************************************************************)
(* Canvas, fonts and drawing primitives                                    *)
(***************************************************************************)

CANVAS_WIDTH == 800
CANVAS_HEIGHT == 600
margin == 24
split_x == 420
left_col_right == split_x - 10
left_inner_width == left_col_right - margin
left_mid_split == margin + left_inner_width \div 2

\* get_font(size) is the font of that nominal size; font.size reads it back.
cond_font == 56
detail_font == 32
small_font == 20
tx_label_font(vr) == IF vr = "v1" THEN 30 ELSE 26
tx_value_font(vr) == IF vr = "v1" THEN 28 ELSE 24

\* The text measurer is outside the program.  A mt stands for the font
\* file in use and the shape of the text: "scaled" grows with the font size,
\* "fixed" is the bitmap fallback of get_font, which ignores the size.
\* text_size of the empty text is (0, 0).
text_size(mt, nchars, size) ==
    IF nchars = 0 THEN [w |-> 0, h |-> 0]
    ELSE IF mt.kind = "scaled"
         THEN [w |-> (nchars * size * mt.cw) \div 10, h |-> (size * mt.ch) \div 10]
         ELSE [w |-> nchars * mt.cw, h |-> mt.ch]

NoBox == <<>>

\* draw.text((x, y), text, font=get_font(size))
PlainText(elem, x, y, text, size) ==
    [kind |-> "text", mode |-> "plain", elem |-> elem, x |-> x, y |-> y,
     text |-> text, size |-> size, w |-> 0, h |-> 0, box |-> NoBox]

\* text_size(...) followed by draw.text at a position computed from it
MeasuredText(elem, x, y, text, size, m) ==
    [kind |-> "text", mode |-> "measured", elem |-> elem, x |-> x, y |-> y,
     text |-> text, size |-> size, w |-> m.w, h |-> m.h, box |-> NoBox]

\* The centred draw.text that follows a fit_text_in_box call returning f
CentredText(elem, text, box, f) ==
    [kind |-> "text", mode |-> "fitted", elem |-> elem,
     x |-> (box[1] + box[3]) \div 2 - f.w \div 2,
     y |-> (box[2] + box[4]) \div 2 - f.h \div 2,
     text |-> text, size |-> f.size, w |-> f.w, h |-> f.h, box |-> box]

\* fit_text_in_box(...) followed by the centred draw.text
FittedText(mt, elem, text, nchars, box, max_size, min_size) ==
    LET meas == [s \in 1..max_size |-> text_size(mt, nchars, s)]
    IN  CentredText(elem, text, box, fit_text_in_box(meas, box, max_size, min_size))

\* Image.new("L", (CANVAS_WIDTH, CANVAS_HEIGHT), 255)
new_image == [w |-> CANVAS_WIDTH, h |-> CANVAS_HEIGHT, rotations |-> 0]

\* img.rotate(-90, expand=True): the expanded canvas swaps its dimensions
rotate(im) == [w |-> im.h, h |-> im.w, rotations |-> im.rotations + 1]

\* img.tobytes() of a mode "L" image: one byte per pixel
tobytes(im) == [t |-> "bytes", len |-> im.w * im.h, w |-> im.w, h |-> im.h]

(***************************************************************************)
(* build_image_bytes: the weather failure path                             *)
(***************************************************************************)

weather_error_ops_partial(e) ==
    << PlainText("err_title", margin, margin, "Error reading weather", detail_font),
       PlainText("err_text", margin, margin + 40, e, small_font),
       PlainText("cond", margin, margin, "", cond_font) >>

weather_error_ops(e) ==
    << PlainText("err_title", margin, margin, "Error reading weather", detail_font),
       PlainText("err_text", margin, margin + 40, e, small_font) >>

rotated_err_skipped(im) == im

rotated_err(im) == rotate(im)

(***************************************************************************)
(* build_image_bytes: readings to texts                                    *)
(***************************************************************************)

\* The try block around both throughput fetches and both format_speed
\* calls: d and u are the replies, NoResult for a fetch never issued.
throughput_texts(d, u) ==
    IF d.t = "ok" /\ u.t = "ok"
    THEN [dl |-> format_speed(d.state, d.attrs),
          ul |-> format_speed(u.state, u.attrs)]
    ELSE [dl |-> "ERR", ul |-> "ERR"]

\* numeric_state(entity_id) given the reply of ha_state, NoResult when the
\* entity id is empty and no request was made.
numeric_state(reply) ==
    IF reply.t # "ok" THEN [value |-> PyNone, unit |-> PyNone]
    ELSE IF is_no_data(reply.state)
         THEN [value |-> PyNone, unit |-> get(reply.attrs.unit_of_measurement)]
         ELSE IF float(reply.state).ok
              THEN [value |-> PyFloat(float(reply.state).tenths),
                    unit |-> get(reply.attrs.unit_of_measurement)]
              ELSE [value |-> PyNone, unit |-> PyNone]

DEFAULT_TEMP_UNIT == PyStr(<<DEGREE, "C">>)

\* inside_temp_text and hottub_temp_text
aux_temp_text(ns) ==
    IF ns.value # PyNone
    THEN fmt1(ns.value.tenths) \o str(py_or(ns.unit, DEFAULT_TEMP_UNIT))
    ELSE EM_DASH

\* hum_text
aux_hum_text(ns) ==
    IF ns.value # PyNone THEN fmt0(ns.value.tenths) \o "%" ELSE "--"

\* temp_str
temp_str(attrs) ==
    LET temp == get(attrs.temperature)
        temp_unit == str(get_default(attrs.temperature_unit, DEFAULT_TEMP_UNIT))
    IN  IF temp # PyNone
        THEN IF float(temp).ok THEN fmt0(float(temp).tenths) \o temp_unit
             ELSE str(temp) \o temp_unit
        ELSE EM_DASH

WIND_CHILL_KEYS == <<"apparent_temperature", "wind_chill", "windchill",
                     "feels_like", "apparent_temp">>

\* The loop over the "feels like" keys: the first value that is neither
\* None nor a no-data string and that float() accepts.
RECURSIVE wind_chill_scan(_, _)
wind_chill_scan(attrs, i) ==
    IF i > Len(WIND_CHILL_KEYS) THEN PyNone
    ELSE LET v == get(attrs[WIND_CHILL_KEYS[i]])
         IN  IF ~is_no_data(v) /\ float(v).ok
             THEN PyFloat(float(v).tenths)
             ELSE wind_chill_scan(attrs, i + 1)

wind_chill_value(attrs) == wind_chill_scan(attrs, 1)

\* The detail lines that add_detail is called for, in order
detail_lines(attrs) ==
    LET humidity == get(attrs.humidity)
        pressure == get(attrs.pressure)
        wind_speed == py_or(get(attrs.wind_speed), get(attrs.native_wind_speed))
        wind_speed_unit ==
            str(py_or(py_or(get(attrs.wind_speed_unit), get(attrs.native_wind_speed_unit)),
                      PyStr(<<"m","/","s">>)))
        wind_bearing == get(attrs.wind_bearing)
        cloud_coverage == get(attrs.cloud_coverage)
        uv_index == get(attrs.uv_index)
        ws_str == IF float(wind_speed).ok
                  THEN fmt1(float(wind_speed).tenths) \o " " \o wind_speed_unit
                  ELSE str(wind_speed) \o " " \o wind_speed_unit
        bearing == IF truthy(wind_bearing) THEN " (" \o str(wind_bearing) \o ")" ELSE ""
    IN  (IF humidity # PyNone
         THEN <<[elem |-> "detail_humidity", text |-> "Humidity: " \o str(humidity) \o "%"]>>
         ELSE <<>>)
        \o (IF pressure # PyNone
            THEN <<[elem |-> "detail_pressure", text |-> "Pressure: " \o str(pressure) \o " hPa"]>>
            ELSE <<>>)
        \o (IF wind_speed # PyNone
            THEN <<[elem |-> "detail_wind", text |-> "Wind: " \o ws_str \o bearing]>>
            ELSE <<>>)
        \o (IF cloud_coverage # PyNone
            THEN <<[elem |-> "detail_clouds", text |-> "Clouds: " \o str(cloud_coverage) \o "%"]>>
            ELSE <<>>)
        \o (IF uv_index # PyNone
            THEN <<[elem |-> "detail_uv", text |-> "UV Index: " \o str(uv_index)]>>
            ELSE <<>>)

(***************************************************************************)
(* build_image_bytes: the drawing pass                                     *)
(*                                                                         *)
(* Values the code keeps in local variables (y, the row tops, the boxes)   *)
(* are passed from operator to operator as arguments.                      *)
(***************************************************************************)

UPDATED_TEXT == "Updated: 2026-01-01 12:00"

\* Condition header, then one add_detail per line; y starts at margin.
header_ops_of(cond_text, lines) ==
    << PlainText("cond", margin, margin, cond_text, cond_font) >>
    \o [i \in 1..Len(lines) |->
          PlainText(lines[i].elem, margin,
                    margin + cond_font + 16 + (i - 1) * (detail_font + 8),
                    lines[i].text, detail_font)]

header_ops(wr) ==
    header_ops_of(Join(capitalize(wr.state.chars)), detail_lines(wr.attrs))

\* y after the header and the detail lines
weather_block_bottom(wr) ==
    margin + cond_font + 16 + Len(detail_lines(wr.attrs)) * (detail_font + 8)

updated_op_of(m) ==
    MeasuredText("updated", margin, CANVAS_HEIGHT - margin - m.h, UPDATED_TEXT,
                 small_font, m)

updated_op(mt) == updated_op_of(text_size(mt, Len(UPDATED_TEXT), small_font))

glyph_len(glyph) == IF glyph \in {"SNOWFLAKE_UMBRELLA", "CYCLONE_CLOUD"} THEN 2 ELSE 1

glyph_op_of(mt, box, glyph) ==
    FittedText(mt, "icon", glyph, glyph_len(glyph), box, 260, 80)

\* The glyph branch: icon_for_condition, fit_text_in_box, centred draw.text
glyph_op(mt, box, condition) == glyph_op_of(mt, box, icon_for_condition(condition))

(*------------------------------- src/app.py ------------------------------*)

\* The transmission block starts 16 below the last detail line.
v1_transmission_at(y0, tx) ==
    << PlainText("tx_label", margin, y0, "Transmission:", tx_label_font("v1")),
       PlainText("tx_up", margin, y0 + tx_label_font("v1") + 6,
                 "Up: " \o tx.ul, tx_value_font("v1")),
       PlainText("tx_down", margin, y0 + tx_label_font("v1") + 6 + tx_value_font("v1") + 4,
                 "Down: " \o tx.dl, tx_value_font("v1")) >>

v1_transmission_ops(wr, tx) == v1_transmission_at(weather_block_bottom(wr) + 16, tx)

v1_temp_box == <<split_x + 10, margin, CANVAS_WIDTH - margin, CANVAS_HEIGHT \div 2 - 10>>

temp_op_of(mt, t, box) == FittedText(mt, "temp", t, Len(t), box, 180, 80)

v1_temp_op(mt, wr) == temp_op_of(mt, temp_str(wr.attrs), v1_temp_box)

\* The guard on the icon box: too little room below icon_box_top
v1_icon_box_guard(icon_box_top, icon_box_bottom) ==
    IF icon_box_bottom <= icon_box_top + 20
    THEN <<split_x + 10, CANVAS_HEIGHT \div 2 + 10, CANVAS_WIDTH - margin,
           CANVAS_HEIGHT - margin - 40>>
    ELSE <<split_x + 10, icon_box_top, CANVAS_WIDTH - margin, icon_box_bottom>>

\* The icon box of src/app.py starts below the rendered temperature text.
v1_icon_box(temp_y, temp_h) ==
    v1_icon_box_guard(temp_y + temp_h + 20, CANVAS_HEIGHT - margin - 40)

v1_right_ops(mt, condition, temp_op) ==
    << temp_op, glyph_op(mt, v1_icon_box(temp_op.y, temp_op.h), condition) >>

v1_dashboard_ops(mt, wr, tx) ==
    header_ops(wr)
    \o v1_transmission_ops(wr, tx)
    \o << updated_op(mt) >>
    \o v1_right_ops(mt, wr.state.chars, v1_temp_op(mt, wr))

(*---------------------------- src/python/app.py --------------------------*)

\* int(CANVAS_HEIGHT * 0.45)
INSIDE_ROW_MIN_TOP == (CANVAS_HEIGHT * 45) \div 100

inside_row_guard(top) ==
    IF top + 90 > CANVAS_HEIGHT - 160
    THEN [top |-> CANVAS_HEIGHT - 160 - 90, bottom |-> CANVAS_HEIGHT - 160]
    ELSE [top |-> top, bottom |-> top + 90]

inside_row_fixed(wbb) == inside_row_guard(INSIDE_ROW_MIN_TOP)

\* inside_row_top and inside_row_bottom, from weather_block_bottom
inside_row(wbb) == inside_row_guard(Max(wbb + 12, INSIDE_ROW_MIN_TOP))

humidity_row_guard(top, bottom) ==
    IF bottom <= top + 20
    THEN [top |-> CANVAS_HEIGHT - 200, bottom |-> bottom]
    ELSE [top |-> top, bottom |-> bottom]

humidity_row_from_top(ir) == humidity_row_guard(ir.top + 10, CANVAS_HEIGHT - margin - 45)

\* humidity_row_top and humidity_row_bottom, from the inside row
humidity_row(ir) == humidity_row_guard(ir.bottom + 10, CANVAS_HEIGHT - margin - 45)

box_inside_left(ir) == <<margin, ir.top, left_mid_split - 5, ir.bottom>>
box_hottub(ir) == <<left_mid_split + 5, ir.top, left_col_right, ir.bottom>>
box_hum(hr) == <<margin, hr.top, left_mid_split - 5, hr.bottom>>
box_tx(hr) == <<left_mid_split + 5, hr.top, left_col_right, hr.bottom>>

\* value_box_inside_left, value_box_hottub, value_box_hum
value_box(box) == <<box[1], box[2] + small_font + 4, box[3], box[4] - 4>>

\* label plus fitted value of one auxiliary cell
aux_cell_ops(mt, name, label, text, box, max_size) ==
    << PlainText("lbl_" \o name, box[1], box[2] + 2, label, small_font),
       FittedText(mt, "val_" \o name, text, Len(text), value_box(box), max_size, 32) >>

v2_aux_ops(mt, auxv, ir, hr) ==
    aux_cell_ops(mt, "inside_temp", "Inside Temp", aux_temp_text(auxv.inside_temp),
                 box_inside_left(ir), 70)
    \o aux_cell_ops(mt, "hottub", "Hot Tub Temp", aux_temp_text(auxv.hottub),
                    box_hottub(ir), 70)
    \o aux_cell_ops(mt, "inside_hum", "Inside Humidity", aux_hum_text(auxv.inside_hum),
                    box_hum(hr), 80)

\* The three transmission lines from start_y on
v2_transmission_at(x, start_y, tx) ==
    << PlainText("tx_label", x, start_y, "Transmission", tx_label_font("v2")),
       PlainText("tx_up", x, start_y + tx_label_font("v2") + 4,
                 "Up:   " \o tx.ul, tx_value_font("v2")),
       PlainText("tx_down", x, start_y + tx_label_font("v2") + 4 + tx_value_font("v2") + 2,
                 "Down: " \o tx.dl, tx_value_font("v2")) >>

\* tx_cy - total_tx_height // 2
v2_tx_start_y(box) ==
    (box[2] + box[4]) \div 2
    - (tx_label_font("v2") + tx_value_font("v2") * 2 + 10) \div 2

v2_transmission_ops(hr, tx) ==
    v2_transmission_at(box_tx(hr)[1], v2_tx_start_y(box_tx(hr)), tx)

v2_temp_box == <<split_x + 10, margin, CANVAS_WIDTH - margin, CANVAS_HEIGHT \div 2 - 20>>
v2_temp_text_box == <<split_x + 10, margin, CANVAS_WIDTH - margin, CANVAS_HEIGHT \div 2 - 20 - 30>>

v2_temp_op(mt, wr) == temp_op_of(mt, temp_str(wr.attrs), v2_temp_text_box)

\* The wind chill line, measured and centred under the temperature
wind_chill_line(wc_str, m) ==
    MeasuredText("wind_chill", (v2_temp_box[1] + v2_temp_box[3]) \div 2 - m.w \div 2,
                 v2_temp_box[4] - m.h - 4, wc_str, small_font, m)

wind_chill_text(wc, temp_unit) == "[" \o fmt0(wc.tenths) \o temp_unit \o " wind chill]"

wind_chill_ops_of_placeholder(mt, wc, temp_unit) ==
    IF wc # PyNone
    THEN << wind_chill_line(wind_chill_text(wc, temp_unit),
                            text_size(mt, Len(wind_chill_text(wc, temp_unit)), small_font)) >>
    ELSE << wind_chill_line("[" \o EM_DASH \o " wind chill]",
                            text_size(mt, Len("[" \o EM_DASH \o " wind chill]"), small_font)) >>

wind_chill_ops_of(mt, wc, temp_unit) ==
    IF wc # PyNone
    THEN << wind_chill_line(wind_chill_text(wc, temp_unit),
                            text_size(mt, Len(wind_chill_text(wc, temp_unit)), small_font)) >>
    ELSE <<>>

wind_chill_ops(mt, wr) ==
    wind_chill_ops_of(mt, wind_chill_value(wr.attrs),
                      str(get_default(wr.attrs.temperature_unit, DEFAULT_TEMP_UNIT)))

v2_icon_box == <<split_x + 10, CANVAS_HEIGHT \div 2 + 10, CANVAS_WIDTH - margin,
                 CANVAS_HEIGHT - margin - 10>>

\* The left column below the weather block, given both rows
v2_rows_ops(mt, tx, auxv, ir, hr) ==
    v2_aux_ops(mt, auxv, ir, hr) \o v2_transmission_ops(hr, tx)

v2_left_ops(mt, tx, auxv, ir) == v2_rows_ops(mt, tx, auxv, ir, humidity_row(ir))

\* Everything build_image_bytes draws before it calls draw_weather_icon
v2_dashboard_ops(mt, wr, tx, auxv) ==
    header_ops(wr)
    \o v2_left_ops(mt, tx, auxv, inside_row(weather_block_bottom(wr)))
    \o << updated_op(mt), v2_temp_op(mt, wr) >>
    \o wind_chill_ops(mt, wr)

\* Image.thumbnail((box_w, box_h)): never enlarges; otherwise one side takes
\* the box's and the other is the floor or ceiling that keeps the aspect
\* ratio best, at least 1.
thumbnail(ow, oh, bw, bh) ==
    LET abs(n) == IF n < 0 THEN -n ELSE n
        ceil_div(a, b) == (a + b - 1) \div b
        pick_x(f, c) == IF abs(ow * bh - f * oh) <= abs(ow * bh - c * oh) THEN f ELSE c
        pick_y(f, c) == IF f = 0 THEN f
                        ELSE IF abs(ow * f - bw * oh) * c <= abs(ow * c - bw * oh) * f
                             THEN f ELSE c
    IN  IF bw >= ow /\ bh >= oh THEN [w |-> ow, h |-> oh]
        ELSE IF bw * oh >= ow * bh
             THEN [w |-> Max(pick_x((bh * ow) \div oh, ceil_div(bh * ow, oh)), 1), h |-> bh]
             ELSE [w |-> bw, h |-> Max(pick_y((bw * oh) \div ow, ceil_div(bw * oh, ow)), 1)]

bitmap_op_top_left(box, ow, oh) ==
    [kind |-> "bitmap", mode |-> "pasted", elem |-> "icon",
     x |-> box[1], y |-> box[2], text |-> "", size |-> 0,
     w |-> thumbnail(ow, oh, Max(1, box[3] - box[1]), Max(1, box[4] - box[2])).w,
     h |-> thumbnail(ow, oh, Max(1, box[3] - box[1]), Max(1, box[4] - box[2])).h,
     box |-> box]

\* img.paste(ico, (px, py)) of draw_weather_icon
bitmap_op(box, ow, oh) ==
    LET box_w == Max(1, box[3] - box[1])
        box_h == Max(1, box[4] - box[2])
        ico == thumbnail(ow, oh, box_w, box_h)
    IN  [kind |-> "bitmap", mode |-> "pasted", elem |-> "icon",
         x |-> box[1] + (box_w - ico.w) \div 2, y |-> box[2] + (box_h - ico.h) \div 2,
         text |-> "", size |-> 0, w |-> ico.w, h |-> ico.h, box |-> box]

(***************************************************************************)
(* do_GET and build_image_bytes as a state machine                         *)
(*                                                                         *)
(* The handler is sequential; it is cut into steps at its blocking network *)
(* calls.  Each action takes the reply of the pending call and runs the    *)
(* code up to the next call or to the end of do_GET.                       *)
(***************************************************************************)

\* No request is waiting for the handler
NoPath == <<>>

HA_URL == <<"h","a">>
ROUTE == <<"/","k","o","b","o","-","d","a","s","h","b","o","a","r","d",".","r","a","w">>
AUX_ORDER == <<"inside_temp", "inside_hum", "hottub">>

Request(target, url) == [target |-> target, url |-> url, drawn |-> Len(canvas)]

Fail(e) == [t |-> "fail", err |-> e]
Ok(state, attrs) == [t |-> "ok", state |-> state, attrs |-> attrs]

send_image_no_length(raw) ==
    [status |-> 200, content_type |-> "application/octet-stream",
     content_length |-> -1, body_len |-> raw.len, body_text |-> ""]

\* do_GET's two ways of answering a request to the route
send_image(raw) ==
    [status |-> 200, content_type |-> "application/octet-stream",
     content_length |-> raw.len, body_len |-> raw.len, body_text |-> ""]
send_error(e) ==
    [status |-> 500, content_type |-> "text/plain",
     content_length |-> -1, body_len |-> Len("Error: " \o e), body_text |-> "Error: " \o e]
send_not_found ==
    [status |-> 404, content_type |-> "",
     content_length |-> -1, body_len |-> 0, body_text |-> ""]

\* State left by a build_image_bytes that returned after drawing ops
Returned(reqs, ops, rotated_img) ==
    [pc |-> "done", requests |-> reqs, canvas |-> ops, img |-> rotated_img,
     result |-> tobytes(rotated_img), response |-> send_image(tobytes(rotated_img))]

\* State left by a build_image_bytes that raised e after drawing ops
Raised(reqs, ops, e) ==
    [pc |-> "done", requests |-> reqs, canvas |-> ops, img |-> new_image,
     result |-> [t |-> "raised", exc |-> e], response |-> send_error(e)]

\* State while a request is pending
Waiting(target, reqs, ops) ==
    [pc |-> target, requests |-> reqs, canvas |-> ops, img |-> new_image,
     result |-> NoResult, response |-> NoResult]

\* The three numeric_state results
aux_values(a) ==
    [inside_temp |-> numeric_state(a.inside_temp),
     inside_hum |-> numeric_state(a.inside_hum),
     hottub |-> numeric_state(a.hottub)]

\* draw_weather_icon up to its requests.get, or to its end when no request
\* is made; ops are the drawing operations made before the call.
icon_stage(w, reqs, ops) ==
    LET icon_url == get(w.attrs.entity_picture)
    IN  IF truthy(icon_url)
        THEN IF icon_url.t # "str"
             THEN Raised(reqs, ops, "AttributeError")
             ELSE LET url == IF startswith(icon_url.chars, <<"/">>)
                             THEN HA_URL \o icon_url.chars ELSE icon_url.chars
                  IN  Waiting("icon",
                              Append(reqs, [target |-> "icon", url |-> url, drawn |-> Len(ops)]),
                              ops)
        ELSE Returned(reqs, Append(ops, glyph_op(metric, v2_icon_box, w.state.chars)),
                      rotate(new_image))

draw_stage_icon_first(w, d, u, a, reqs) ==
    IF variant = "v1"
    THEN Returned(reqs, v1_dashboard_ops(metric, w, throughput_texts(d, u)),
                  rotate(new_image))
    ELSE icon_stage(w, reqs, <<>>)

\* The drawing pass, entered once the last sensor reply is in
draw_stage(w, d, u, a, reqs) ==
    IF variant = "v1"
    THEN Returned(reqs, v1_dashboard_ops(metric, w, throughput_texts(d, u)),
                  rotate(new_image))
    ELSE icon_stage(w, reqs,
                    v2_dashboard_ops(metric, w, throughput_texts(d, u), aux_values(a)))

aux_stage_any_id(w, d, u, a, reqs, k) ==
    IF variant = "v2" /\ k <= Len(AUX_ORDER)
    THEN Waiting(AUX_ORDER[k],
                 Append(reqs, [target |-> AUX_ORDER[k], url |-> cfg[AUX_ORDER[k]],
                               drawn |-> 0]),
                 <<>>)
    ELSE draw_stage(w, d, u, a, reqs)

\* numeric_state calls from the k-th on: the first configured entity is
\* requested; with none left the drawing pass runs.
aux_stage(w, d, u, a, reqs, k) ==
    LET todo == {j \in k..Len(AUX_ORDER) : cfg[AUX_ORDER[j]] # <<>>}
    IN  IF variant = "v2" /\ todo # {}
        THEN LET j == CHOOSE i \in todo : \A o \in todo : i <= o
             IN  Waiting(AUX_ORDER[j],
                         Append(reqs, [target |-> AUX_ORDER[j], url |-> cfg[AUX_ORDER[j]],
                                       drawn |-> 0]),
                         <<>>)
        ELSE draw_stage(w, d, u, a, reqs)

\* The handler's variables take the values of n (computed once)
Become(n) ==
    \E m \in {n} :
        /\ pc' = m.pc
        /\ requests' = m.requests
        /\ canvas' = m.canvas
        /\ img' = m.img
        /\ result' = m.result
        /\ response' = m.response

(*------------------------- what the environment offers -------------------*)

Variants == {"v1", "v2"}

\* A proportional font, a text far taller than its font size (a unit that
\* holds line breaks), and the bitmap fallback.
Metrics ==
    { [kind |-> "scaled", cw |-> 6, ch |-> 8],
      [kind |-> "scaled", cw |-> 6, ch |-> 90],
      [kind |-> "fixed", cw |-> 6, ch |-> 11] }

Paths == { ROUTE, ROUTE \o <<"?","t">>, ROUTE \o <<".","b">>, <<"/">>,
           <<"/","k","o","b","o">> }

FetchErrors == {"ConnectionError", "HTTPError", "ReadTimeout", "JSONDecodeError"}

SensorIds ==
    [inside_temp |-> <<"s","1">>, inside_hum |-> <<"s","2">>, hottub |-> <<"s","3">>]

\* No inside sensor configured (the default), only the first, or all three
AuxConfigs ==
    { [n \in DOMAIN SensorIds |-> IF n \in on THEN SensorIds[n] ELSE <<>>] :
        on \in { {}, {"inside_temp"}, DOMAIN SensorIds } }

NoAttrs ==
    [temperature |-> Absent, temperature_unit |-> Absent, humidity |-> Absent,
     pressure |-> Absent, wind_speed |-> Absent, native_wind_speed |-> Absent,
     wind_speed_unit |-> Absent, native_wind_speed_unit |-> Absent,
     wind_bearing |-> Absent, cloud_coverage |-> Absent, uv_index |-> Absent,
     apparent_temperature |-> Absent, wind_chill |-> Absent, windchill |-> Absent,
     feels_like |-> Absent, apparent_temp |-> Absent, entity_picture |-> Absent]

Conditions == { <<"c","l","e","a","r","-","n","i","g","h","t">>, <<>> }

Temperatures == { Absent, PyFloat(214) }

\* No detail at all, wind alone without bearing, all five with bearing
DetailAttrs ==
    { [humidity |-> Absent, pressure |-> Absent, wind_speed |-> Absent,
       wind_bearing |-> Absent, cloud_coverage |-> Absent, uv_index |-> Absent],
      [humidity |-> Absent, pressure |-> Absent, wind_speed |-> PyFloat(35),
       wind_bearing |-> Absent, cloud_coverage |-> Absent, uv_index |-> Absent],
      [humidity |-> PyInt(55), pressure |-> PyFloat(10132), wind_speed |-> PyInt(12),
       wind_bearing |-> PyInt(270), cloud_coverage |-> PyInt(40), uv_index |-> PyInt(3)] }

\* apparent temperature given directly, or "unknown" there and a wind chill
FeelsLike ==
    { [apparent_temperature |-> Absent, wind_chill |-> Absent],
      [apparent_temperature |-> PyStr(UNKNOWN), wind_chill |-> PyFloat(-186)] }

Pictures ==
    { Absent, PyStr(<<>>), PyStr(<<"/","i">>), PyStr(<<"h","t","t","p",":","i">>), PyInt(7) }

WeatherAttrs(vr) ==
    { [NoAttrs EXCEPT !.temperature = t,
                      !.humidity = d.humidity, !.pressure = d.pressure,
                      !.wind_speed = d.wind_speed, !.cloud_coverage = d.cloud_coverage,
                      !.uv_index = d.uv_index, !.wind_bearing = d.wind_bearing,
                      !.apparent_temperature = f.apparent_temperature,
                      !.wind_chill = f.wind_chill, !.entity_picture = p] :
        t \in Temperatures, d \in DetailAttrs,
        f \in IF vr = "v1" THEN {CHOOSE x \in FeelsLike : x.wind_chill = Absent} ELSE FeelsLike,
        p \in IF vr = "v1" THEN {Absent} ELSE Pictures }

DownloadReplies ==
    { Ok(PyStr(UNKNOWN), [unit_of_measurement |-> PyStr(<<"M","B","/","s">>)]),
      Ok(PyStr(<<"f","a","s","t">>), [unit_of_measurement |-> Absent]),
      Fail("ReadTimeout") }

UploadReplies ==
    { Ok(PyStr(UNAVAILABLE), [unit_of_measurement |-> Absent]),
      Ok(PyStr(<<"1","2",".","5">>), [unit_of_measurement |-> PyStr(<<"M","B","/","s">>)]),
      Fail("HTTPError") }

AuxReplies(name) ==
    CASE name = "inside_temp" ->
            { Ok(PyStr(<<"2","1",".","5">>), [unit_of_measurement |-> PyStr(<<DEGREE,"F">>)]),
              Ok(PyStr(<<"w","a","r","m">>), [unit_of_measurement |-> Absent]),
              Fail("ReadTimeout") }
      [] name = "inside_hum" ->
            { Ok(PyStr(<<"4","4",".","5">>), [unit_of_measurement |-> PyStr(<<"%">>)]),
              Fail("HTTPError") }
      [] name = "hottub" ->
            { Ok(PyStr(<<"3","8">>), [unit_of_measurement |-> Absent]),
              Ok(PyStr(UNAVAILABLE), [unit_of_measurement |-> Absent]) }

\* requests.get + raise_for_status + Image.open + convert: the decoded
\* bitmap's size, or the exception raised on the way
IconReplies(url) ==
    IF startswith(url, HA_URL)
    THEN { [t |-> "ok", ow |-> 65, oh |-> 64], [t |-> "ok", ow |-> 692, oh |-> 300],
           Fail("HTTPError"), Fail("ReadTimeout"), Fail("UnidentifiedImageError") }
    ELSE { [t |-> "ok", ow |-> 65, oh |-> 64], Fail("HTTPError") }

(*--------------------------------- actions --------------------------------*)

Init ==
    /\ fitIn = NoResult /\ fitOut = NoResult
    /\ condIn = <<>> /\ glyphOut = NoResult
    /\ variant \in Variants
    /\ metric \in Metrics
    /\ cfg \in AuxConfigs
    /\ variant = "v1" => cfg = [n \in DOMAIN SensorIds |-> <<>>]
    /\ path = NoPath
    /\ pc = "idle"
    /\ weather = NoResult /\ dl = NoResult /\ ul = NoResult
    /\ aux = [n \in DOMAIN SensorIds |-> NoResult]
    /\ icon = NoResult
    /\ requests = <<>> /\ canvas = <<>>
    /\ img = new_image
    /\ result = NoResult /\ response = NoResult

\* The server accepts a GET request and hands its path to the handler
serve_forever ==
    /\ pc = "idle"
    /\ path = NoPath
    /\ path' \in Paths
    /\ UNCHANGED <<pureVars, variant, metric, cfg, pc, weather, dl, ul, aux, icon,
                   requests, canvas, img, result, response>>

\* do_GET up to ha_state(WEATHER_ENTITY), or to the 404; self.path is read
\* by the route test and not again
do_GET ==
    /\ pc = "idle"
    /\ path # NoPath
    /\ IF startswith(path, ROUTE)
       THEN Become(Waiting("weather", <<Request("weather", <<"w">>)>>, <<>>))
       ELSE /\ pc' = "done"
            /\ response' = send_not_found
            /\ UNCHANGED <<requests, canvas, img, result>>
    /\ path' = NoPath
    /\ UNCHANGED <<pureVars, variant, metric, cfg, weather, dl, ul, aux, icon>>

\* The weather fetch raises: error canvas, rotated and returned
WeatherFails ==
    /\ pc = "weather"
    /\ \E e \in FetchErrors :
         /\ weather' = Fail(e)
         /\ Become(Returned(requests, weather_error_ops(e), rotated_err(img)))
    /\ UNCHANGED <<pureVars, variant, metric, cfg, path, dl, ul, aux, icon>>

\* The weather fetch returns: on to ha_state(DL_ENTITY)
WeatherReply ==
    /\ pc = "weather"
    /\ \E c \in Conditions, a \in WeatherAttrs(variant) :
         weather' = Ok(PyStr(c), a)
    /\ Become(Waiting("dl", Append(requests, Request("dl", <<"d">>)), canvas))
    /\ UNCHANGED <<pureVars, variant, metric, cfg, path, dl, ul, aux, icon>>

\* ha_state(DL_ENTITY) returns or raises; a raise skips the upload fetch
DownloadReply ==
    /\ pc = "dl"
    /\ \E r \in DownloadReplies :
         /\ dl' = r
         /\ IF r.t = "ok"
            THEN Become(Waiting("ul", Append(requests, Request("ul", <<"u">>)), canvas))
            ELSE Become(aux_stage(weather, r, ul, aux, requests, 1))
    /\ UNCHANGED <<pureVars, variant, metric, cfg, path, weather, ul, aux, icon>>

UploadReply ==
    /\ pc = "ul"
    /\ \E r \in UploadReplies :
         /\ ul' = r
         /\ Become(aux_stage(weather, dl, r, aux, requests, 1))
    /\ UNCHANGED <<pureVars, variant, metric, cfg, path, weather, dl, aux, icon>>

\* The ha_state call inside numeric_state returns or raises
AuxReply ==
    /\ \E k \in 1..Len(AUX_ORDER) :
         /\ pc = AUX_ORDER[k]
         /\ \E r \in AuxReplies(AUX_ORDER[k]) :
              /\ aux' = [aux EXCEPT ![AUX_ORDER[k]] = r]
              /\ Become(aux_stage(weather, dl, ul, aux', requests, k + 1))
    /\ UNCHANGED <<pureVars, variant, metric, cfg, path, weather, dl, ul, icon>>

\* The remote icon fetch returns a bitmap or raises; either way the icon is
\* drawn, the canvas rotated and returned
IconReply ==
    /\ pc = "icon"
    /\ \E r \in IconReplies(requests[Len(requests)].url) :
         /\ icon' = r
         /\ Become(Returned(requests,
                            Append(canvas,
                                   IF r.t = "ok"
                                   THEN bitmap_op(v2_icon_box, r.ow, r.oh)
                                   ELSE glyph_op(metric, v2_icon_box, weather.state.chars)),
                            rotate(img)))
    /\ UNCHANGED <<pureVars, variant, metric, cfg, path, weather, dl, ul, aux>>

Next ==
    \/ serve_forever
    \/ do_GET
    \/ WeatherFails
    \/ WeatherReply
    \/ DownloadReply
    \/ UploadReply
    \/ AuxReply
    \/ IconReply

(***************************************************************************)
(* Specification of the text fitter alone                                  *)
(***************************************************************************)

MaxFontSize == 4
Extents == {1, 2}
NearCoords == {0, 1}
FarCoords == {0, 1, 2}

FontSizes == 1..MaxFontSize
Measurements == [FontSizes -> [w : Extents, h : Extents]]
FitBoxes == NearCoords \X NearCoords \X FarCoords \X FarCoords

FitInit ==
    /\ \E m \in Measurements, b \in FitBoxes, mx \in FontSizes, mn \in FontSizes :
          /\ mx >= mn
          /\ fitIn = [meas |-> m, box |-> b, max_size |-> mx, min_size |-> mn]
    /\ fitOut = NoResult

FitCall ==
    /\ fitOut = NoResult
    /\ fitOut' = fit_text_in_box(fitIn.meas, fitIn.box, fitIn.max_size, fitIn.min_size)
    /\ UNCHANGED <<fitIn, condIn, glyphOut, renderVars>>

(***************************************************************************)
(* Specification of the glyph table alone                                  *)
(***************************************************************************)

TableKeys == {mapping[i].key : i \in 1..Len(mapping)}
Suffixes == {<<>>, <<"-">>, <<"-","x">>, <<"s">>}
IconInputs ==
    LET stems == TableKeys \cup {<<>>, <<"t","o","r","n","a","d","o">>}
        plain == {k \o x : k \in stems, x \in Suffixes}
    IN  plain \cup {capitalize(s) : s \in plain}

IconInit ==
    /\ condIn \in IconInputs
    /\ glyphOut = NoResult

IconCall ==
    /\ glyphOut = NoResult
    /\ glyphOut' = [t |-> "glyph", v |-> icon_for_condition(condIn)]
    /\ UNCHANGED <<fitIn, fitOut, condIn, renderVars>>

vars == <<pureVars, renderVars>>

Spec == Init /\ [][Next]_vars

\* No request is being served while a pure function is exercised alone.
RenderIdle ==
    /\ variant = "v2"
    /\ metric = [kind |-> "scaled", cw |-> 6, ch |-> 8]
    /\ cfg = [n \in DOMAIN SensorIds |-> <<>>]
    /\ path = NoPath
    /\ pc = "idle"
    /\ weather = NoResult /\ dl = NoResult /\ ul = NoResult
    /\ aux = [n \in DOMAIN SensorIds |-> NoResult]
    /\ icon = NoResult
    /\ requests = <<>> /\ canvas = <<>>
    /\ img = new_image
    /\ result = NoResult /\ response = NoResult

InitFit == FitInit /\ condIn = <<>> /\ glyphOut = NoResult /\ RenderIdle

SpecFit == InitFit /\ [][FitCall]_vars

InitIcon == IconInit /\ fitIn = NoResult /\ fitOut = NoResult /\ RenderIdle

SpecIcon == InitIcon /\ [][IconCall]_vars

(***************************************************************************)
(* Claims about the text fitter                                            *)
(***************************************************************************)

FitBoxW == Max(1, fitIn.box[3] - fitIn.box[1])
FitBoxH == Max(1, fitIn.box[4] - fitIn.box[2])
FitsAt(s) == fitIn.meas[s].w <= FitBoxW /\ fitIn.meas[s].h <= FitBoxH
SizesInRange == fitIn.min_size..fitIn.max_size
ScannedSizes == {s \in SizesInRange : (fitIn.max_size - s) % 2 = 0}
MeasuredAt(s) == [size |-> s, w |-> fitIn.meas[s].w, h |-> fitIn.meas[s].h]

C2_FallbackIsMinSize ==
    (fitOut # NoResult /\ \A s \in SizesInRange : ~FitsAt(s)) =>
        fitOut = MeasuredAt(fitIn.min_size)

\* Nothing fits a box clamped to one pixel (right <= left), the range has
\* an even number of sizes so the scan never visits min_size, and the
\* fitter has returned.
C2_Witness ==
    /\ fitOut # NoResult
    /\ fitIn.box[3] <= fitIn.box[1]
    /\ (fitIn.max_size - fitIn.min_size) % 2 = 1
    /\ \A s \in SizesInRange : ~FitsAt(s)
    /\ fitOut.size = fitIn.min_size

(***************************************************************************)
(* Claims about the glyph table                                            *)
(***************************************************************************)

DeclaredIcon(k) == mapping[CHOOSE i \in 1..Len(mapping) : mapping[i].key = k].icon

\* C3: looking up a key of the table returns the glyph declared for that
\* very key: no entry is shadowed by an earlier one.
C3_NoEntryShadowed ==
    (glyphOut # NoResult /\ condIn \in TableKeys) =>
        glyphOut.v = DeclaredIcon(condIn)

(***************************************************************************)
(* Claims about one render                                                 *)
(***************************************************************************)

\* build_image_bytes returned the dashboard (not the error canvas)
DashboardDrawn == pc = "done" /\ weather.t = "ok" /\ result.t = "bytes"

Has(e) == \E i \in DOMAIN canvas : canvas[i].elem = e
OpOf(e) == canvas[CHOOSE i \in DOMAIN canvas : canvas[i].elem = e]
UpPrefix == IF variant = "v1" THEN "Up: " ELSE "Up:   "
DownPrefix == "Down: "

\* C4: in a render whose weather fetch succeeded, a download or upload
\* reading fetched with state "unknown" or "unavailable" is rendered as "-",
\* whatever its attributes and whatever became of the other reading's fetch.
C4_NoDataRendersDash ==
    DashboardDrawn =>
        /\ (dl.t = "ok" /\ is_no_data(dl.state)) => OpOf("tx_down").text = DownPrefix \o "-"
        /\ (ul.t = "ok" /\ is_no_data(ul.state)) => OpOf("tx_up").text = UpPrefix \o "-"

\* C5: when the weather fetch raises, build_image_bytes returns the rotated
\* canvas carrying the error title and the exception text and nothing else.
C5_WeatherFailureDrawsOnlyTheError ==
    (pc = "done" /\ weather.t = "fail") =>
        /\ result.t = "bytes"
        /\ response.status = 200
        /\ img.rotations = 1
        /\ Len(canvas) = 2
        /\ canvas[1].elem = "err_title" /\ canvas[1].text = "Error reading weather"
        /\ canvas[2].elem = "err_text" /\ canvas[2].text = weather.err

\* The weather fetch timed out and the request has been answered.
C5_Witness ==
    /\ pc = "done"
    /\ weather = Fail("ReadTimeout")
    /\ result.t = "bytes"
    /\ Has("err_text")

\* C6: a fetch or parse failure of one throughput or auxiliary reading
\* changes that reading's text only; every reading that was fetched is
\* rendered as its own reply alone determines.
C6_FailureStaysLocal ==
    DashboardDrawn =>
        /\ dl.t = "ok" => OpOf("tx_down").text = DownPrefix \o format_speed(dl.state, dl.attrs)
        /\ ul.t = "ok" => OpOf("tx_up").text = UpPrefix \o format_speed(ul.state, ul.attrs)
        /\ variant = "v2" =>
             /\ OpOf("val_inside_temp").text = aux_temp_text(numeric_state(aux.inside_temp))
             /\ OpOf("val_hottub").text = aux_temp_text(numeric_state(aux.hottub))
             /\ OpOf("val_inside_hum").text = aux_hum_text(numeric_state(aux.inside_hum))
        /\ OpOf("temp").text = temp_str(weather.attrs)
        /\ OpOf("cond").text = Join(capitalize(weather.state.chars))

\* C7: once the weather reading is in, the render returns an image on which
\* the icon was drawn, as a bitmap or as a glyph: icon resolution never
\* raises, whatever the remote-icon attribute and the fetch outcome.
C7_IconResolutionNeverRaises ==
    (pc = "done" /\ weather.t = "ok") =>
        /\ result.t = "bytes"
        /\ Has("icon")

\* C8: every buffer build_image_bytes returns holds 600 x 800 = 480000
\* bytes and comes from the 800 x 600 canvas rotated exactly once.
C8_BufferIsTheCanvasRotatedOnce ==
    result.t = "bytes" =>
        /\ result.len = 480000
        /\ result.w = 600 /\ result.h = 800
        /\ img.rotations = 1
        /\ response.status = 200 /\ response.body_len = 480000

\* A dashboard with a pasted remote icon has been returned.
C8_Witness ==
    /\ DashboardDrawn
    /\ icon.t = "ok"
    /\ OpOf("icon").kind = "bitmap"
    /\ result.len = 480000

(***************************************************************************)
(* Claims about the layout                                                 *)
(***************************************************************************)

AuxNames == {"inside_temp", "hottub", "inside_hum"}
DetailElems == {"detail_humidity", "detail_pressure", "detail_wind", "detail_clouds",
                "detail_uv"}

\* Where each element other than those of skip is drawn
Positions(ops, skip) ==
    { <<ops[i].elem, ops[i].x, ops[i].y>> : i \in {j \in DOMAIN ops : ops[j].elem \notin skip} }

\* The icon operation of a src/python/app.py render, from the icon reply
IconOpOf(reply, condition) ==
    IF reply.t = "ok" THEN bitmap_op(v2_icon_box, reply.ow, reply.oh)
    ELSE glyph_op(metric, v2_icon_box, condition)

\* The drawing operations of a render of the same variant, metric and
\* throughput readings on the weather reading wr and auxiliary values auxv
RenderOf(wr, auxv) ==
    IF variant = "v1" THEN v1_dashboard_ops(metric, wr, throughput_texts(dl, ul))
    ELSE Append(v2_dashboard_ops(metric, wr, throughput_texts(dl, ul), auxv),
                IconOpOf(icon, wr.state.chars))

WithBearing(wr) == [wr EXCEPT !.attrs.wind_bearing = PyInt(270)]
WithFeelsLike(wr) == [wr EXCEPT !.attrs.apparent_temperature = PyFloat(-186)]
WithAux(auxv, n) == [auxv EXCEPT ![n] = [value |-> PyFloat(215), unit |-> PyNone]]
AuxPlaceholder(n) == IF n = "inside_hum" THEN "--" ELSE EM_DASH

NoBearing == ~truthy(get(weather.attrs.wind_bearing))
NoFeelsLike == wind_chill_value(weather.attrs) = PyNone
NoAux(n) == aux_values(aux)[n].value = PyNone

\* Every element but those of skip is where the render on (wr, auxv) has it
SamePositionsAs(wr, auxv, skip) ==
    Positions(canvas, skip) = Positions(RenderOf(wr, auxv), skip)

\* C9 as stated: absent wind bearing, apparent temperature or auxiliary
\* sensor means nothing is drawn for it, no label and no placeholder, and
\* every other element is where it is when the data is present.
C9_AbsentDataDrawsNothing ==
    DashboardDrawn =>
        /\ NoBearing => SamePositionsAs(WithBearing(weather), aux_values(aux), {})
        /\ NoFeelsLike =>
             /\ ~Has("wind_chill")
             /\ SamePositionsAs(WithFeelsLike(weather), aux_values(aux), {"wind_chill"})
        /\ \A n \in AuxNames :
             NoAux(n) =>
                /\ ~Has("lbl_" \o n) /\ ~Has("val_" \o n)
                /\ SamePositionsAs(weather, WithAux(aux_values(aux), n),
                                   {"lbl_" \o n, "val_" \o n})

\* C9 amended: absent wind bearing or apparent temperature draws nothing
\* for it; an absent auxiliary sensor of src/python/app.py keeps its label
\* and gets its placeholder as value; every other element is where it is
\* when the data is present.
C9_AbsentDataKeepsLayout ==
    DashboardDrawn =>
        /\ NoBearing =>
             /\ weather.attrs.wind_speed = PyFloat(35) =>
                    OpOf("detail_wind").text = "Wind: 3.5 m/s"
             /\ SamePositionsAs(WithBearing(weather), aux_values(aux), {})
        /\ NoFeelsLike =>
             /\ ~Has("wind_chill")
             /\ SamePositionsAs(WithFeelsLike(weather), aux_values(aux), {"wind_chill"})
        /\ \A n \in AuxNames :
             (variant = "v2" /\ NoAux(n)) =>
                /\ Has("lbl_" \o n)
                /\ OpOf("val_" \o n).text = AuxPlaceholder(n)
                /\ SamePositionsAs(weather, WithAux(aux_values(aux), n), {"val_" \o n})
        /\ variant = "v1" => \A n \in AuxNames : ~Has("lbl_" \o n) /\ ~Has("val_" \o n)

\* A src/python/app.py dashboard with wind but no bearing, no apparent
\* temperature and no hot tub sensor configured
C9_Witness ==
    /\ DashboardDrawn
    /\ variant = "v2"
    /\ Has("detail_wind") /\ NoBearing
    /\ NoFeelsLike
    /\ cfg.hottub = <<>>
    /\ OpOf("val_hottub").text = EM_DASH

NLines == Cardinality({i \in DOMAIN canvas : canvas[i].elem \in DetailElems})

\* C10 as stated: every region box and the transmission origin are the same
\* in every render of a variant, whatever details are present and whatever
\* the fitted texts measure.
C10_BoxesAreLayoutConstants ==
    DashboardDrawn =>
        /\ variant = "v1" =>
             /\ OpOf("temp").box = <<430, 24, 776, 290>>
             /\ OpOf("icon").box = <<430, 310, 776, 536>>
             /\ OpOf("tx_label").x = 24 /\ OpOf("tx_label").y = 112
        /\ variant = "v2" =>
             /\ OpOf("temp").box = <<430, 24, 776, 250>>
             /\ OpOf("icon").box = <<430, 310, 776, 566>>
             /\ OpOf("val_inside_temp").box = <<24, 294, 212, 356>>
             /\ OpOf("val_hottub").box = <<222, 294, 410, 356>>
             /\ OpOf("val_inside_hum").box = <<24, 394, 212, 527>>
             /\ OpOf("tx_label").x = 222 /\ OpOf("tx_label").y = 408

\* Top of the icon box of src/app.py under a temperature text drawn at y
\* with height h
V1IconTop(y, h) == IF 536 <= y + h + 40 THEN 310 ELSE y + h + 20

\* Top of the inside row of src/python/app.py under n detail lines
V2RowTop(n) == IF 108 + 40 * n > 270 THEN 108 + 40 * n ELSE 270

\* C10 amended: the temperature box, the icon box of src/python/app.py and
\* the horizontal extent of every box are layout constants; the icon box of
\* src/app.py starts 20 below the fitted temperature text, its transmission
\* block 16 below the last detail line, and the rows of src/python/app.py
\* start 12 below the last detail line when that is lower than 270.
C10_BoxesFollowDetailsAndTemperature ==
    DashboardDrawn =>
        /\ variant = "v1" =>
             /\ OpOf("temp").box = <<430, 24, 776, 290>>
             /\ OpOf("icon").box =
                    <<430, V1IconTop(OpOf("temp").y, OpOf("temp").h), 776, 536>>
             /\ OpOf("tx_label").x = 24 /\ OpOf("tx_label").y = 112 + 40 * NLines
        /\ variant = "v2" =>
             /\ OpOf("temp").box = <<430, 24, 776, 250>>
             /\ OpOf("icon").box = <<430, 310, 776, 566>>
             /\ OpOf("val_inside_temp").box =
                    <<24, V2RowTop(NLines) + 24, 212, V2RowTop(NLines) + 86>>
             /\ OpOf("val_hottub").box =
                    <<222, V2RowTop(NLines) + 24, 410, V2RowTop(NLines) + 86>>
             /\ OpOf("val_inside_hum").box = <<24, V2RowTop(NLines) + 124, 212, 527>>
             /\ OpOf("tx_label").x = 222
             /\ OpOf("tx_label").y = (V2RowTop(NLines) + 100 + 531) \div 2 - 42

\* A src/python/app.py dashboard whose five detail lines pushed the rows down
C10_Witness ==
    /\ DashboardDrawn
    /\ variant = "v2"
    /\ NLines = 5
    /\ OpOf("val_inside_temp").box[2] = 332

(***************************************************************************)
(* Claims about the region boxes                                           *)
(***************************************************************************)

\* The region boxes of a src/python/app.py render, given its two rows
RegionBoxesV2(ir, hr) ==
    { v2_temp_box, OpOf("icon").box, box_inside_left(ir), box_hottub(ir),
      box_hum(hr), box_tx(hr) }

RegionBoxesUnder(ir) == RegionBoxesV2(ir, humidity_row(ir))

\* The region boxes of the render that has just been drawn
RegionBoxes ==
    IF variant = "v1" THEN { OpOf("temp").box, OpOf("icon").box }
    ELSE RegionBoxesUnder(inside_row(weather_block_bottom(weather)))

\* left < right, top < bottom, inside the 800 x 600 canvas
WellFormedBox(b) ==
    /\ 0 <= b[1] /\ b[1] < b[3] /\ b[3] <= 800
    /\ 0 <= b[2] /\ b[2] < b[4] /\ b[4] <= 600

\* The two boxes share interior points
Overlap(a, b) == a[1] < b[3] /\ b[1] < a[3] /\ a[2] < b[4] /\ b[2] < a[4]

\* C11 as stated: the region boxes of every render are well formed, inside
\* the canvas and pairwise non-overlapping.
C11_BoxesDisjointAndInside ==
    DashboardDrawn =>
        /\ \A b \in RegionBoxes : WellFormedBox(b)
        /\ \A a \in RegionBoxes : \A b \in RegionBoxes : a # b => ~Overlap(a, b)

\* C11 amended: the region boxes of every render are well formed and
\* inside the canvas; those of src/python/app.py are pairwise
\* non-overlapping, while the icon box of src/app.py, which starts 20 below
\* the fitted temperature text, may overlap the temperature box.
C11_BoxesInsideDisjointInV2 ==
    DashboardDrawn =>
        /\ \A b \in RegionBoxes : WellFormedBox(b)
        /\ variant = "v2" =>
             /\ Cardinality(RegionBoxes) = 6
             /\ \A a \in RegionBoxes : \A b \in RegionBoxes : a # b => ~Overlap(a, b)
        /\ variant = "v1" =>
             \/ OpOf("icon").box[2] = OpOf("temp").y + OpOf("temp").h + 20
             \/ OpOf("icon").box[2] = 310

\* A src/python/app.py dashboard whose five detail lines moved both rows
C11_Witness ==
    /\ DashboardDrawn
    /\ variant = "v2"
    /\ NLines = 5
    /\ box_hum(humidity_row(inside_row(weather_block_bottom(weather))))[2] = 408

(***************************************************************************)
(* Claims about do_GET                                                     *)
(***************************************************************************)

\* The path without its query string
RECURSIVE strip_query(_)
strip_query(p) ==
    IF p = <<>> \/ Head(p) = "?" THEN <<>> ELSE <<Head(p)>> \o strip_query(Tail(p))

\* do_GET takes the accepted request
Dispatch == path # NoPath /\ path' = NoPath

\* The response of a finished request is the one its outcome calls for
ResponseMatchesResult ==
    CASE result.t = "raised" ->
            /\ response.status = 500
            /\ response.content_type = "text/plain"
            /\ response.body_text = "Error: " \o result.exc
      [] result.t = "bytes" ->
            /\ response.status = 200
            /\ response.body_len = result.len
            /\ response.content_length = result.len
      [] result.t = "none" ->
            /\ response.status = 404
            /\ requests = <<>> /\ canvas = <<>>

\* Nothing is sent before the request is finished, and what was sent stays
OneResponse ==
    /\ [](pc # "done" => response = NoResult)
    /\ [](pc = "done" => response # NoResult /\ ResponseMatchesResult)
    /\ [][response # NoResult => response' = response]_vars

Pending == pc \notin {"idle", "done"}

RequestsTo(target) == {i \in DOMAIN requests : requests[i].target = target}

\* C13 as stated: every network request of a render, the remote icon's
\* included, is issued and completed before the first drawing operation.
C13_AllRequestsBeforeDrawing ==
    /\ Pending => canvas = <<>>
    /\ \A i \in DOMAIN requests : requests[i].drawn = 0

\* C13 amended: the entity requests (weather, download, upload, auxiliary
\* sensors) are completed before the first drawing operation; the remote
\* icon of src/python/app.py is requested last, after every other element
\* has been drawn, and only the icon is drawn after it.
C13_OnlyTheIconRequestFollowsDrawing ==
    /\ (Pending /\ pc # "icon") => canvas = <<>>
    /\ \A i \in DOMAIN requests : requests[i].target # "icon" => requests[i].drawn = 0
    /\ \A i \in RequestsTo("icon") :
          /\ variant = "v2"
          /\ i = Len(requests)
          /\ requests[i].drawn > 0
          /\ Len(canvas) >= requests[i].drawn
          /\ \A j \in 1..requests[i].drawn : canvas[j].elem # "icon"
          /\ \A j \in (requests[i].drawn + 1)..Len(canvas) : canvas[j].elem = "icon"
    /\ pc = "icon" =>
          /\ RequestsTo("icon") # {}
          /\ Has("cond") /\ Has("temp") /\ Has("updated") /\ Has("tx_label")
          /\ ~Has("icon")

\* The remote icon was requested after everything else was drawn, and
\* pasted when its bitmap arrived
C13_Witness ==
    /\ DashboardDrawn
    /\ icon.t = "ok"
    /\ RequestsTo("icon") # {}
    /\ requests[Len(requests)].drawn = Len(canvas) - 1
    /\ canvas[Len(canvas)].kind = "bitmap"

\* Place of each request in the order the code issues them
Rank(target) ==
    CASE target = "weather"     -> 1
      [] target = "dl"          -> 2
      [] target = "ul"          -> 3
      [] target = "inside_temp" -> 4
      [] target = "inside_hum"  -> 5
      [] target = "hottub"      -> 6
      [] target = "icon"        -> 7

\* C14: no request is repeated, whether it failed or not; requests go out
\* in the order weather, download, upload, auxiliary sensors, remote icon;
\* an auxiliary sensor without entity id is never requested; after a failed
\* weather request nothing more is requested.
C14_EachRequestOnceInOrder ==
    /\ \A i \in DOMAIN requests : \A j \in DOMAIN requests :
          i < j => Rank(requests[i].target) < Rank(requests[j].target)
    /\ requests # <<>> => requests[1].target = "weather"
    /\ \A n \in AuxNames : cfg[n] = <<>> => RequestsTo(n) = {}
    /\ \A n \in AuxNames : RequestsTo(n) # {} => variant = "v2"
    /\ \A i \in DOMAIN requests :
          requests[i].target \in AuxNames => requests[i].url = cfg[requests[i].target]
    /\ weather.t = "fail" => Len(requests) = 1
    /\ dl.t = "fail" => RequestsTo("ul") = {}

\* A finished render that asked for all seven things once each, although
\* the inside temperature and the icon failed
C14_Witness ==
    /\ pc = "done"
    /\ Len(requests) = 7
    /\ aux.inside_temp.t = "fail"
    /\ icon.t = "fail"
    /\ Cardinality({requests[i].target : i \in DOMAIN requests}) = 7

(***************************************************************************)
(* Claims about centring                                                   *)
(***************************************************************************)

\* The operations that place an element in a box
Boxed == {i \in DOMAIN canvas : canvas[i].box # NoBox}

\* The element is where the centring rule puts it
CentredByRule(op) ==
    /\ op.x = (op.box[1] + op.box[3]) \div 2 - op.w \div 2
    /\ op.y = (op.box[2] + op.box[4]) \div 2 - op.h \div 2

\* The element's rectangle lies inside its box
InsideItsBox(op) ==
    /\ op.box[1] <= op.x /\ op.x + op.w <= op.box[3]
    /\ op.box[2] <= op.y /\ op.y + op.h <= op.box[4]

FitsItsBox(op) == op.w <= op.box[3] - op.box[1] /\ op.h <= op.box[4] - op.box[2]

\* C15: every element placed in a box, fitted text, glyph and remote icon
\* bitmap alike, is drawn at ((l+r)/2 - w/2, (t+b)/2 - h/2) under integer
\* division, and lies inside the box whenever it is no larger than the box.
C15_OneCentringRule ==
    \A i \in Boxed :
        /\ CentredByRule(canvas[i])
        /\ FitsItsBox(canvas[i]) => InsideItsBox(canvas[i])

\* Where img.paste puts a bitmap of the operation's size in its box
PastedByMargin(op) ==
    /\ op.x = op.box[1] + (Max(1, op.box[3] - op.box[1]) - op.w) \div 2
    /\ op.y = op.box[2] + (Max(1, op.box[4] - op.box[2]) - op.h) \div 2

\* Each coordinate is the rule's or one less
WithinOnePixelOfRule(op) ==
    /\ (op.box[1] + op.box[3]) \div 2 - op.w \div 2 - op.x \in {0, 1}
    /\ (op.box[2] + op.box[4]) \div 2 - op.h \div 2 - op.y \in {0, 1}

\* C15 amended: fitted text and glyphs are drawn at ((l+r)/2 - w/2,
\* (t+b)/2 - h/2); the remote icon bitmap is pasted at (l + (bw - w)/2,
\* t + (bh - h)/2) for the box width bw and height bh, which is that position
\* or one pixel less; an element no larger than its box lies inside it.
C15_TextByRuleBitmapByMargin ==
    \A i \in Boxed :
        /\ canvas[i].kind = "text" => CentredByRule(canvas[i])
        /\ canvas[i].kind = "bitmap" =>
              /\ PastedByMargin(canvas[i])
              /\ WithinOnePixelOfRule(canvas[i])
              /\ FitsItsBox(canvas[i])
        /\ FitsItsBox(canvas[i]) => InsideItsBox(canvas[i])

\* A bitmap of odd width was pasted one pixel left of the rule's position,
\* next to a fitted temperature text
C15_Witness ==
    /\ DashboardDrawn
    /\ Has("temp") /\ FitsItsBox(OpOf("temp"))
    /\ OpOf("icon").kind = "bitmap"
    /\ OpOf("icon").w = 65
    /\ OpOf("icon").x = 570

====
